---- MODULE Spec2Model ----
(***************************************************************************)
(* Model of src/viewer.rs of gltf-viewer: construction of GltfViewer       *)
(* (camera selection, fit to bounds, explicit overrides), the render loop  *)
(* and the translation of window events into calls on OrbitControls.       *)
(*                                                                         *)
(* OrbitControls (module `controls`) and Camera (module `render`) are not  *)
(* part of viewer.rs; their operations are modelled from the design        *)
(* document and are marked as such where they are defined.                 *)
(*                                                                         *)
(* Representation of the pose.  viewer.rs assigns cartesian points         *)
(* (Point3) to `position` and `target`; the controls then turn, zoom and   *)
(* translate them by real-valued amounts.  A point is therefore kept as a  *)
(* record: `base` is the cartesian point last assigned by viewer.rs or     *)
(* set_camera, and the other fields count what the controls did to it      *)
(* since: `pan` the translation in the view plane (in cursor units),       *)
(* `walk` the keyboard translation (in units of the frame time), and, for  *)
(* the eye only, `az`/`pol` the azimuth and polar angle turned around the  *)
(* target (in steps of the rotation sensitivity) and `zoom` the logarithm  *)
(* of the radius factor (in steps of the zoom sensitivity).  Two points    *)
(* are the same point iff their records are equal, but for the degenerate  *)
(* radius 0 (see Coincide).                                                *)
(***************************************************************************)
EXTENDS Integers, Sequences, FiniteSets, TLC

VARIABLES
    pc,              \* where the program is: "new", "frame", "events", "polled",
                     \* "draw", "swap", "returned", "exited", "panicked",
                     \* "rotate", "screenshot", "shots_done"
    exit_code,       \* process exit code, -1 while the process runs
    camera_options,  \* CameraOptions passed to GltfViewer::new
    camera_nodes,    \* root.camera_nodes of the loaded document
    bounds,          \* scene.bounds of the loaded document
    width, height,   \* GltfViewer.width / height
    position,        \* orbit_controls.position
    target,          \* orbit_controls.target
    camera,          \* orbit_controls.camera: [fovy, aspect]
    screen_width,    \* orbit_controls.screen_width
    screen_height,   \* orbit_controls.screen_height
    state,           \* orbit_controls.state (NavState)
    last_cursor,     \* orbit_controls' last cursor sample, NoCursor when unset
    pressed_keys,    \* orbit_controls' held directions
    delta_time,      \* GltfViewer.delta_time, in nanoseconds
    keep_running,    \* local of process_events
    warned,          \* the "Ignoring --cam-pos / --cam-target" warning was logged
    drained,         \* number of events the current poll has handed to the closure
    saw_quit,        \* the current poll has handed over Closed or Key(Escape, Pressed)
    press_from,      \* the nav state found by the left/right press handled since the
                     \* last CursorMoved, NoPress when there was none
    last_resize,     \* the (w, h) of the last Resized event, NoResize before the first
    headless,        \* the viewer was made headless: events_loop and gl_window are None
    elapsed,         \* last_frame.elapsed() as measured at the top of the frame
    frame,           \* the current frame of start_render_loop: the calls made so far,
                     \* the pose process_events left and the CamParams draw has read
    shot             \* the multiscreenshot / screenshot call: its arguments, its loop
                     \* index and the log of what it did

vars == <<pc, exit_code, camera_options, camera_nodes, bounds, width, height,
          position, target, camera, screen_width, screen_height, state,
          last_cursor, pressed_keys, delta_time, keep_running, warned, drained,
          saw_quit, press_from, last_resize, headless, elapsed, frame, shot>>

----------------------------------------------------------------------------
(* Bounds of the model *)

MaxCameras == 2      \* camera nodes in a document: 0..MaxCameras
MaxIndex == 2        \* camera_options.index ranges over -1..MaxIndex
MaxFovy == 2         \* camera_options.fovy ranges over 1..MaxFovy
MaxDim == 2          \* window widths and heights range over 1..MaxDim
MaxCursor == 1       \* cursor coordinates range over 0..MaxCursor
MaxBatch == 2        \* events drained by one poll: 0..MaxBatch
MaxSecs == 1         \* whole seconds a frame can take: 0..MaxSecs
MaxLen == 3          \* characters of a screenshot path: 0..MaxLen
MaxCount == 2        \* screenshots asked of multiscreenshot: 0..MaxCount
MaxWalk == 1         \* cap of the keyboard translation, per axis
MaxPan == 1          \* cap of the pan translation, per axis
AzSteps == 4         \* rotation steps in a full turn
PolClamp == 1        \* polar steps between the base direction and the clamp
ZoomClamp == 1       \* zoom steps between the base radius and r_min / r_max

----------------------------------------------------------------------------
(* Values *)

NanosPerSec == 1000000000

None == "None"           \* Option::None
NoCursor == <<>>
NoResize == <<>>
NoPress == "NoPress"
NoShot == [filename |-> <<>>, count |-> 0, i |-> 0, increment_angle |-> None,
           start |-> None, log |-> <<>>]

Abs(n) == IF n < 0 THEN -n ELSE n
Min(a, b) == IF a < b THEN a ELSE b
Max(a, b) == IF a < b THEN b ELSE a
Clamp(v, lo, hi) == Max(lo, Min(hi, v))

RECURSIVE Gcd(_, _)
Gcd(a, b) == IF b = 0 THEN a ELSE Gcd(b, a % b)

\* w as f32 / h as f32, for w, h > 0: the quotient as a fraction in lowest terms
Ratio(w, h) == <<w \div Gcd(w, h), h \div Gcd(w, h)>>

\* i32 bitwise complement
BitNot(i) == -i - 1

VecAdd(a, b) == <<a[1] + b[1], a[2] + b[2], a[3] + b[3]>>
VecSub(a, b) == <<a[1] - b[1], a[2] - b[2], a[3] - b[3]>>
Dot(a, b) == a[1] * b[1] + a[2] * b[2] + a[3] * b[3]

\* |v|, for the vectors of the model, whose length is a whole number
Magnitude(v) == CHOOSE s \in 0..(Abs(v[1]) + Abs(v[2]) + Abs(v[3])) : s * s = Dot(v, v)

\* Aabb3::center
Center(b) == <<(b.min[1] + b.max[1]) \div 2, (b.min[2] + b.max[2]) \div 2,
               (b.min[3] + b.max[3]) \div 2>>

\* Point3 assigned by viewer.rs: nothing turned, zoomed or translated yet
\* (spin is the part of a full turn that rotate_object has turned the eye by)
Eye(v) == [base |-> v, az |-> 0, pol |-> 0, zoom |-> 0, pan |-> <<0, 0>>, walk |-> <<0, 0>>,
           spin |-> <<0, 1>>]
Pivot(v) == [base |-> v, pan |-> <<0, 0>>, walk |-> <<0, 0>>]

\* |position - target| = 0: eye and pivot are the same point
Coincide(p, t) == p.base = t.base /\ p.zoom = 0 /\ p.pan = t.pan /\ p.walk = t.walk

\* Scene bounds of the documents of the model: coordinates are even and the
\* diagonal is a multiple of 10, so center, size/2 and size/5 are whole numbers
SceneBounds ==
    { [min |-> <<2, 2, 2>>, max |-> <<2, 2, 2>>],
      [min |-> <<0, 0, 0>>, max |-> <<0, 0, 10>>],
      [min |-> <<0, 0, 0>>, max |-> <<20, 10, 20>>] }

\* Camera nodes a document can carry: node k has its own fovy, aspect and transform
CameraNode(k) ==
    [camera |-> [fovy |-> k, aspect |-> <<4, 3>>],
     origin |-> <<k, 0, 7>>,          \* final_transform * origin
     forward |-> <<0, 0, -1>>]        \* forward vector of final_transform

Documents == { [n \in 1..k |-> CameraNode(n)] : k \in 0..MaxCameras }

OptVectors == {None, <<0, 0, 0>>, <<2, 2, 2>>}

Options == [index : -1..MaxIndex, position : OptVectors, target : OptVectors,
            fovy : 1..MaxFovy]

NavStates == {"None", "Rotating", "Panning"}

----------------------------------------------------------------------------
(* Camera and OrbitControls, as far as GltfViewer::new uses them *)

\* Camera::update_aspect_ratio
update_aspect_ratio(cam, a) == [cam EXCEPT !.aspect = a]

\* OrbitControls::set_camera: intrinsic parameters copied from the node's
\* camera, position from the transform's origin, target along its forward vector
set_camera_camera(node) == node.camera
set_camera_position(node) == Eye(node.origin)
set_camera_target(node) == Pivot(VecAdd(node.origin, node.forward))

\* GltfViewer::set_camera_from_bounds
cam_pos_from_bounds(b) ==
    LET size == Magnitude(VecSub(b.max, b.min))
        center == Center(b)
    IN  Eye(<<center[1] + size \div 2, center[2] + size \div 5, center[3] + size \div 2>>)

target_from_bounds(b) == Pivot(Center(b))

\* the guard of line 175: `!` binds tighter than `==` and is the bitwise
\* complement on i32
UsesCameraNode(nodes, opts) == Len(nodes) # 0 /\ BitNot(opts.index) = -1

\* the guard of line 176
IndexOutOfRange(nodes, opts) == opts.index >= Len(nodes)

\* GltfViewer::new, lines 123-128: the controls before a pose is chosen
NewCamera(opts, w, h) ==
    update_aspect_ratio([fovy |-> opts.fovy, aspect |-> <<1, 1>>], Ratio(w, h))

\* GltfViewer::new, lines 175-198: the pose and camera the viewer starts with
NewPosition(nodes, b, opts) ==
    IF UsesCameraNode(nodes, opts)
    THEN set_camera_position(nodes[opts.index + 1])
    ELSE IF opts.position # None THEN Eye(opts.position) ELSE cam_pos_from_bounds(b)

NewTarget(nodes, b, opts) ==
    IF UsesCameraNode(nodes, opts)
    THEN set_camera_target(nodes[opts.index + 1])
    ELSE IF opts.target # None THEN Pivot(opts.target) ELSE target_from_bounds(b)

NewWarned(nodes, opts) ==
    UsesCameraNode(nodes, opts) /\ (opts.position # None \/ opts.target # None)

\* GltfViewer::new: lines 123-128 set up the controls, lines 175-198 choose the pose
New ==
    /\ pc = "new"
    /\ screen_width' = width
    /\ screen_height' = height
    /\ IF UsesCameraNode(camera_nodes, camera_options)
          /\ IndexOutOfRange(camera_nodes, camera_options)
       THEN /\ pc' = "exited"
            /\ exit_code' = 2
            /\ camera' = NewCamera(camera_options, width, height)
            /\ UNCHANGED <<position, target, warned>>
       ELSE /\ pc' = "frame"
            /\ exit_code' = exit_code
            /\ position' = NewPosition(camera_nodes, bounds, camera_options)
            /\ target' = NewTarget(camera_nodes, bounds, camera_options)
            /\ camera' = IF UsesCameraNode(camera_nodes, camera_options)
                         THEN set_camera_camera(camera_nodes[camera_options.index + 1])
                         ELSE NewCamera(camera_options, width, height)
            /\ warned' = NewWarned(camera_nodes, camera_options)
    /\ UNCHANGED <<camera_options, camera_nodes, bounds, width, height,
                   state, last_cursor, pressed_keys, delta_time,
                   keep_running, drained, saw_quit, press_from, last_resize,
                   headless, elapsed, frame, shot>>

----------------------------------------------------------------------------
(* OrbitControls, as far as process_events and the render loop use it *)

\* OrbitControls::handle_mouse_move, Rotating: the azimuth and the polar angle
\* turn against the cursor delta, the polar angle clamped short of the poles;
\* with radius 0 there is nothing to turn
Rotate(p, t, dx, dy) ==
    IF p.base = t.base THEN p
    ELSE [p EXCEPT !.az = (p.az - dx) % AzSteps,
                   !.pol = Clamp(p.pol - dy, -PolClamp, PolClamp)]

\* OrbitControls::handle_mouse_move, Panning: eye and pivot are translated alike
Pan(p, dx, dy) == [p EXCEPT !.pan = <<p.pan[1] - dx, p.pan[2] + dy>>]

\* OrbitControls::handle_mouse_move: position, target and last cursor sample
\* after the cursor sample (x, y)
handle_mouse_move_position(p, t, nav, last, x, y) ==
    IF last = NoCursor THEN p
    ELSE CASE nav = "Rotating" -> Rotate(p, t, x - last[1], y - last[2])
           [] nav = "Panning" -> Pan(p, x - last[1], y - last[2])
           [] OTHER -> p

handle_mouse_move_target(t, nav, last, x, y) ==
    IF last = NoCursor THEN t
    ELSE CASE nav = "Panning" -> Pan(t, x - last[1], y - last[2])
           [] OTHER -> t

handle_mouse_move_cursor(last, x, y) == <<x, y>>

\* OrbitControls::handle_mouse_up
handle_mouse_up(last) == NoCursor

\* OrbitControls::process_mouse_scroll: the radius is scaled by exp(-dy * S_zoom)
\* and clamped to [r_min, r_max]
process_mouse_scroll(p, dy) == [p EXCEPT !.zoom = Clamp(p.zoom - dy, -ZoomClamp, ZoomClamp)]

\* OrbitControls::frame_update: every held direction translates eye and pivot
\* by speed * dt; dt is counted in half seconds
Walk(p, keys, dt) ==
    LET step == dt \div (NanosPerSec \div 2)
        fwd == (IF "FORWARD" \in keys THEN step ELSE 0) - (IF "BACKWARD" \in keys THEN step ELSE 0)
        right == (IF "RIGHT" \in keys THEN step ELSE 0) - (IF "LEFT" \in keys THEN step ELSE 0)
    IN  [p EXCEPT !.walk = <<p.walk[1] + fwd, p.walk[2] + right>>]

\* OrbitControls::process_keyboard
process_keyboard(keys, dir, pressed) == IF pressed THEN keys \cup {dir} ELSE keys \ {dir}

----------------------------------------------------------------------------
(* process_events and process_input *)

MouseButtons == {"Left", "Right", "Middle"}
ElementStates == {"Pressed", "Released"}
VirtualKeyCodes == {"Escape", "W", "Up", "S", "Down", "A", "Left", "D", "Right", "Q"}
KeyboardInputs == [state : ElementStates, virtual_keycode : VirtualKeyCodes \cup {None}]
Dims == 1..MaxDim
Cursors == 0..MaxCursor
ScrollDeltas == {-1, 1}

\* a key map that knows the letters only
DirectionOfLetter(code) ==
    CASE code = "W" -> "FORWARD"
      [] code = "S" -> "BACKWARD"
      [] code = "A" -> "LEFT"
      [] code = "D" -> "RIGHT"
      [] OTHER -> None

\* process_input, lines 429-432: the direction a key code stands for
Direction(code) ==
    CASE code \in {"W", "Up"} -> "FORWARD"
      [] code \in {"S", "Down"} -> "BACKWARD"
      [] code \in {"A", "Left"} -> "LEFT"
      [] code \in {"D", "Right"} -> "RIGHT"
      [] OTHER -> None

\* process_input: its return value
process_input_result(input) ==
    ~(input.virtual_keycode = "Escape" /\ input.state = "Pressed")

\* process_input: the held directions afterwards
process_input_keys(keys, input) ==
    IF input.virtual_keycode = None \/ ~process_input_result(input)
       \/ Direction(input.virtual_keycode) = None
    THEN keys
    ELSE process_keyboard(keys, Direction(input.virtual_keycode), input.state = "Pressed")

\* a press that starts a drag only when none is going on
PressedStateFromNone(button, nav) ==
    CASE button = "Left" /\ nav = "None" -> "Rotating"
      [] button = "Right" /\ nav = "None" -> "Panning"
      [] OTHER -> nav

\* process_events, lines 379-389: nav state after a button press
PressedState(button, nav) ==
    CASE button = "Left" -> "Rotating"
      [] button = "Right" -> "Panning"
      [] OTHER -> nav

\* a release of either drag button that ends whatever drag is going on
ReleaseMatchesAnyDrag(button, nav) == button \in {"Left", "Right"} /\ nav # "None"

\* process_events, lines 390-398: does the released button end the drag
ReleaseMatches(button, nav) ==
    \/ button = "Left" /\ nav = "Rotating"
    \/ button = "Right" /\ nav = "Panning"

\* the closure of poll_events is handed one more event of the current poll
Dispatch ==
    /\ pc = "events"
    /\ drained < MaxBatch
    /\ drained' = drained + 1
    /\ UNCHANGED <<pc, exit_code, camera_options, camera_nodes, bounds, warned,
                   delta_time, headless, elapsed, frame, shot>>

\* WindowEvent::Closed
Closed ==
    /\ Dispatch
    /\ keep_running' = FALSE
    /\ saw_quit' = TRUE
    /\ UNCHANGED <<width, height, position, target, camera, screen_width,
                   screen_height, state, last_cursor, pressed_keys, press_from,
                   last_resize>>

\* the quotient taken the wrong way round
resized_aspect_inverted(w, h) == Ratio(h, w)

\* line 372: the argument of update_aspect_ratio, w as f32 / h as f32
resized_aspect(w, h) == Ratio(w, h)

\* WindowEvent::Resized(w, h)
Resized(w, h) ==
    /\ Dispatch
    /\ width' = w
    /\ height' = h
    /\ camera' = update_aspect_ratio(camera, resized_aspect(w, h))
    /\ screen_width' = w
    /\ screen_height' = h
    /\ last_resize' = <<w, h>>
    /\ UNCHANGED <<position, target, state, last_cursor, pressed_keys,
                   keep_running, saw_quit, press_from>>

\* WindowEvent::DroppedFile and the events of the `_ => ()` arms
Ignored ==
    /\ Dispatch
    /\ UNCHANGED <<width, height, position, target, camera, screen_width,
                   screen_height, state, last_cursor, pressed_keys, keep_running,
                   saw_quit, press_from, last_resize>>

\* WindowEvent::MouseInput { button, state: Pressed }
MousePressed(button) ==
    /\ Dispatch
    /\ state' = PressedState(button, state)
    /\ press_from' = IF button \in {"Left", "Right"} THEN state ELSE press_from
    /\ UNCHANGED <<width, height, position, target, camera, screen_width,
                   screen_height, last_cursor, pressed_keys, keep_running,
                   saw_quit, last_resize>>

\* WindowEvent::MouseInput { button, state: Released }
MouseReleased(button) ==
    /\ Dispatch
    /\ IF ReleaseMatches(button, state)
       THEN /\ state' = "None"
            /\ last_cursor' = handle_mouse_up(last_cursor)
       ELSE UNCHANGED <<state, last_cursor>>
    /\ UNCHANGED <<width, height, position, target, camera, screen_width,
                   screen_height, pressed_keys, keep_running, saw_quit,
                   press_from, last_resize>>

\* WindowEvent::CursorMoved { position: (xpos, ypos) }
CursorMoved(x, y) ==
    /\ Dispatch
    /\ position' = handle_mouse_move_position(position, target, state, last_cursor, x, y)
    /\ target' = handle_mouse_move_target(target, state, last_cursor, x, y)
    /\ last_cursor' = handle_mouse_move_cursor(last_cursor, x, y)
    /\ Abs(target'.pan[1]) <= MaxPan
    /\ Abs(target'.pan[2]) <= MaxPan
    /\ press_from' = NoPress
    /\ UNCHANGED <<width, height, camera, screen_width, screen_height, state,
                   pressed_keys, keep_running, saw_quit, last_resize>>

\* WindowEvent::MouseWheel { delta: PixelDelta(_, yoffset) }
MouseWheelPixel(yoffset) ==
    /\ Dispatch
    /\ position' = process_mouse_scroll(position, yoffset)
    /\ UNCHANGED <<width, height, target, camera, screen_width, screen_height,
                   state, last_cursor, pressed_keys, keep_running, saw_quit,
                   press_from, last_resize>>

\* WindowEvent::MouseWheel { delta: LineDelta(_, lines) }
MouseWheelLine(lines) ==
    /\ Dispatch
    /\ position' = process_mouse_scroll(position, lines * 3)
    /\ UNCHANGED <<width, height, target, camera, screen_width, screen_height,
                   state, last_cursor, pressed_keys, keep_running, saw_quit,
                   press_from, last_resize>>

\* WindowEvent::KeyboardInput { input }
KeyboardInput(input) ==
    /\ Dispatch
    /\ keep_running' = process_input_result(input)
    /\ pressed_keys' = process_input_keys(pressed_keys, input)
    /\ saw_quit' = (saw_quit \/ (input.virtual_keycode = "Escape" /\ input.state = "Pressed"))
    /\ UNCHANGED <<width, height, position, target, camera, screen_width,
                   screen_height, state, last_cursor, press_from, last_resize>>

----------------------------------------------------------------------------
(* GltfViewer::start_render_loop *)

\* Instant::elapsed: a Duration of whole seconds and nanoseconds below a second
Duration(secs, nanos) == [secs |-> secs, nanos |-> nanos]

\* Duration::subsec_nanos: the part below a second, the whole seconds dropped
\* the whole duration in nanoseconds
as_nanos(duration) == duration.secs * NanosPerSec + duration.nanos

\* line 270, Duration::subsec_nanos
subsec_nanos(duration) == duration.nanos

SubSecs == {0, NanosPerSec \div 2}

\* OrbitControls::camera_params: the view looks from position to target, the
\* projection is the camera's
camera_params(p, t, cam) == [view |-> <<p, t>>, projection |-> cam, position |-> p]

NoFrame == [calls |-> <<>>, polled |-> None, cam_params |-> None]

Called(f, call) == [f EXCEPT !.calls = Append(f.calls, call)]

\* a frame that begins as if there always were an events loop and a window
FrameStartWindowed(secs, nanos) ==
    /\ pc = "frame"
    /\ elapsed' = Duration(secs, nanos)
    /\ delta_time' = subsec_nanos(elapsed')
    /\ frame' = NoFrame
    /\ pc' = "events"
    /\ keep_running' = TRUE
    /\ drained' = 0
    /\ saw_quit' = FALSE
    /\ UNCHANGED <<exit_code, camera_options, camera_nodes, bounds, width, height,
                   position, target, camera, screen_width, screen_height, state,
                   last_cursor, pressed_keys, warned, press_from, last_resize,
                   headless, shot>>

\* lines 268-277: the frame's time step is taken and the poll begins; without
\* an events loop or a window the unwrap of line 275 panics
FrameStart(secs, nanos) ==
    /\ pc = "frame"
    /\ elapsed' = Duration(secs, nanos)
    /\ delta_time' = subsec_nanos(elapsed')
    /\ frame' = NoFrame
    /\ IF headless
       THEN /\ pc' = "panicked"
            /\ UNCHANGED <<keep_running, drained, saw_quit>>
       ELSE /\ pc' = "events"
            /\ keep_running' = TRUE
            /\ drained' = 0
            /\ saw_quit' = FALSE
    /\ UNCHANGED <<exit_code, camera_options, camera_nodes, bounds, width, height,
                   position, target, camera, screen_width, screen_height, state,
                   last_cursor, pressed_keys, warned, press_from, last_resize,
                   headless, shot>>

\* line 418: poll_events has drained the queue and process_events returns
PollEnd ==
    /\ pc = "events"
    /\ pc' = "polled"
    /\ drained' = 0
    /\ frame' = [Called(frame, "process_events") EXCEPT !.polled = <<position, target>>]
    /\ UNCHANGED <<exit_code, camera_options, camera_nodes, bounds, width, height,
                   position, target, camera, screen_width, screen_height, state,
                   last_cursor, pressed_keys, delta_time, keep_running, warned,
                   saw_quit, press_from, last_resize, headless, elapsed, shot>>

\* lines 278-281: the final error check and the break
LoopExit ==
    /\ pc = "polled"
    /\ ~keep_running
    /\ pc' = "returned"
    /\ frame' = Called(frame, "gl_check_error")
    /\ UNCHANGED <<exit_code, camera_options, camera_nodes, bounds, width, height,
                   position, target, camera, screen_width, screen_height, state,
                   last_cursor, pressed_keys, delta_time, keep_running, warned,
                   drained, saw_quit, press_from, last_resize, headless, elapsed,
                   shot>>

\* a frame_update that does not look at keep_running
FrameUpdateRegardless ==
    /\ pc = "polled"
    /\ position' = Walk(position, pressed_keys, delta_time)
    /\ target' = Walk(target, pressed_keys, delta_time)
    /\ Abs(target'.walk[1]) <= MaxWalk
    /\ Abs(target'.walk[2]) <= MaxWalk
    /\ pc' = "draw"
    /\ frame' = Called(frame, "frame_update")
    /\ UNCHANGED <<exit_code, camera_options, camera_nodes, bounds, width, height,
                   camera, screen_width, screen_height, state, last_cursor,
                   pressed_keys, delta_time, keep_running, warned, drained,
                   saw_quit, press_from, last_resize, headless, elapsed, shot>>

\* line 283
FrameUpdate ==
    /\ pc = "polled"
    /\ keep_running
    /\ position' = Walk(position, pressed_keys, delta_time)
    /\ target' = Walk(target, pressed_keys, delta_time)
    /\ Abs(target'.walk[1]) <= MaxWalk
    /\ Abs(target'.walk[2]) <= MaxWalk
    /\ pc' = "draw"
    /\ frame' = Called(frame, "frame_update")
    /\ UNCHANGED <<exit_code, camera_options, camera_nodes, bounds, width, height,
                   camera, screen_width, screen_height, state, last_cursor,
                   pressed_keys, delta_time, keep_running, warned, drained,
                   saw_quit, press_from, last_resize, headless, elapsed, shot>>

\* a draw that comes before frame_update
DrawBeforeUpdate ==
    /\ pc = "polled"
    /\ keep_running
    /\ pc' = "swap"
    /\ frame' = [Called(frame, "draw") EXCEPT
                    !.cam_params = camera_params(position, target, camera)]
    /\ UNCHANGED <<exit_code, camera_options, camera_nodes, bounds, width, height,
                   position, target, camera, screen_width, screen_height, state,
                   last_cursor, pressed_keys, delta_time, keep_running, warned,
                   drained, saw_quit, press_from, last_resize, headless, elapsed,
                   shot>>

\* line 285, GltfViewer::draw: the CamParams are read and the scene is drawn
Draw ==
    /\ pc = "draw"
    /\ pc' = "swap"
    /\ frame' = [Called(frame, "draw") EXCEPT
                    !.cam_params = camera_params(position, target, camera)]
    /\ UNCHANGED <<exit_code, camera_options, camera_nodes, bounds, width, height,
                   position, target, camera, screen_width, screen_height, state,
                   last_cursor, pressed_keys, delta_time, keep_running, warned,
                   drained, saw_quit, press_from, last_resize, headless, elapsed,
                   shot>>

\* line 287
SwapBuffers ==
    /\ pc = "swap"
    /\ pc' = "frame"
    /\ frame' = Called(frame, "swap_buffers")
    /\ UNCHANGED <<exit_code, camera_options, camera_nodes, bounds, width, height,
                   position, target, camera, screen_width, screen_height, state,
                   last_cursor, pressed_keys, delta_time, keep_running, warned,
                   drained, saw_quit, press_from, last_resize, headless, elapsed,
                   shot>>

----------------------------------------------------------------------------
(* GltfViewer::screenshot and GltfViewer::multiscreenshot *)

\* a file name is the sequence of its characters
Chars == {"a", ".", "/"}
Paths == UNION {[1..n -> Chars] : n \in 0..MaxLen}
Counts == 0..MaxCount

Digits == <<"0", "1", "2", "3", "4", "5", "6", "7", "8", "9">>

\* format!("{}", i)
RECURSIVE Decimal(_)
Decimal(i) ==
    IF i < 10 THEN <<Digits[i + 1]>>
    ELSE Append(Decimal(i \div 10), Digits[(i % 10) + 1])

\* line 346: format!("_{}", i)
Suffix(i) == <<"_">> \o Decimal(i)

\* Option<usize>::None, told from every offset
NoOffset == -1

\* the byte offset of the first c of s (str::find)
find(s, c) ==
    IF \E k \in 1..Len(s) : s[k] = c
    THEN (CHOOSE k \in 1..Len(s) : s[k] = c /\ \A j \in 1..(k - 1) : s[j] # c) - 1
    ELSE NoOffset

\* line 344, str::rfind: the byte offset of the last c of s
rfind(s, c) ==
    IF \E k \in 1..Len(s) : s[k] = c
    THEN (CHOOSE k \in 1..Len(s) : s[k] = c /\ \A j \in (k + 1)..Len(s) : s[j] # c) - 1
    ELSE NoOffset

\* line 344: .unwrap_or_else(|| filename.len())
dot(filename) ==
    IF rfind(filename, ".") = NoOffset THEN Len(filename) ELSE rfind(filename, ".")

\* String::insert_str
insert_str(s, idx, string) == SubSeq(s, 1, idx) \o string \o SubSeq(s, idx + 1, Len(s))

\* lines 344-346
actual_name(filename, i) == insert_str(filename, dot(filename), Suffix(i))

\* a..=b
RangeInclusive(a, b) == a..b

\* line 342, a..b: b is excluded
Range(a, b) == a..(b - 1)

\* f32 division by zero
Infinity == "inf"

\* a full turn split in count + 1
increment_angle_fencepost(count) == <<1, count + 1>>

\* lines 339-341: (2 PI - 0) / count as a part <<n, d>> of a full turn
increment_angle(count) == IF count = 0 THEN Infinity ELSE <<1, count>>

\* the part n / d of a turn, in lowest terms and within one turn
Turns(n, d) == LET m == n % d IN <<m \div Gcd(m, d), d \div Gcd(m, d)>>

\* OrbitControls::rotate_object: the eye turns around the pivot about the world
\* up axis by the angle, the pivot stays
rotate_object(p, t, angle) ==
    IF p.base = t.base \/ angle = Infinity THEN p
    ELSE [p EXCEPT !.spin = Turns(p.spin[1] * angle[2] + angle[1] * p.spin[2],
                                  p.spin[2] * angle[2])]

SaveResults == {"Ok", "Err"}

\* what a screenshot call can meet: the palette or the file cannot be made (both
\* unwrapped), or the image is saved or fails to
Outcomes == {"palette", "create", "Err", "Ok"}

\* lines 313-337: the calls of one screenshot in their order and how it ends
screenshot(filename, params, outcome) ==
    LET read == <<"draw", "ReadPixels", "flipv", "get_palette">>
    IN  [op |-> "screenshot", name |-> filename, cam_params |-> params,
         calls |-> CASE outcome = "palette" -> read
                     [] outcome = "create" -> read \o <<"println", "File::create">>
                     [] outcome = "Err" -> read \o <<"println", "File::create", "save",
                                                      "error">>
                     [] outcome = "Ok" -> read \o <<"println", "File::create", "save",
                                                     "println_saved">>,
         create |-> CASE outcome = "palette" -> None
                      [] outcome = "create" -> "Err"
                      [] OTHER -> "Ok",
         save |-> IF outcome \in SaveResults THEN outcome ELSE None,
         panicked |-> outcome \notin SaveResults]

\* no frame has begun: the viewer is as GltfViewer::new returned it
Constructed == pc = "frame" /\ frame.calls = <<>> /\ shot.i = 0 /\ shot.log = <<>>

\* a call of screenshot on the viewer as constructed
Screenshot(filename, outcome) ==
    /\ Constructed
    /\ LET taken == screenshot(filename, camera_params(position, target, camera), outcome)
       IN  /\ shot' = [NoShot EXCEPT !.filename = filename, !.start = position,
                                     !.log = <<taken>>]
           /\ pc' = IF taken.panicked THEN "panicked" ELSE "shots_done"
    /\ UNCHANGED <<exit_code, camera_options, camera_nodes, bounds, width, height,
                   position, target, camera, screen_width, screen_height, state,
                   last_cursor, pressed_keys, delta_time, keep_running, warned,
                   drained, saw_quit, press_from, last_resize, headless, elapsed,
                   frame>>

\* lines 338-341: multiscreenshot is entered
Multiscreenshot(filename, count) ==
    /\ Constructed
    /\ shot' = [filename |-> filename, count |-> count, i |-> 1,
                increment_angle |-> increment_angle(count), start |-> position,
                log |-> <<>>]
    /\ pc' = "rotate"
    /\ UNCHANGED <<exit_code, camera_options, camera_nodes, bounds, width, height,
                   position, target, camera, screen_width, screen_height, state,
                   last_cursor, pressed_keys, delta_time, keep_running, warned,
                   drained, saw_quit, press_from, last_resize, headless, elapsed,
                   frame>>

\* lines 342-343: the loop goes on and the object is turned
RotateObject ==
    /\ pc = "rotate"
    /\ shot.i \in Range(1, shot.count + 1)
    /\ position' = rotate_object(position, target, shot.increment_angle)
    /\ shot' = [shot EXCEPT !.log = Append(@, [op |-> "rotate_object",
                                                 angle |-> shot.increment_angle])]
    /\ pc' = "screenshot"
    /\ UNCHANGED <<exit_code, camera_options, camera_nodes, bounds, width, height,
                   target, camera, screen_width, screen_height, state,
                   last_cursor, pressed_keys, delta_time, keep_running, warned,
                   drained, saw_quit, press_from, last_resize, headless, elapsed,
                   frame>>

\* lines 344-347: the name of the i-th file is made and the screenshot taken
TakeScreenshot(outcome) ==
    /\ pc = "screenshot"
    /\ LET taken == screenshot(actual_name(shot.filename, shot.i),
                               camera_params(position, target, camera), outcome)
       IN  /\ shot' = [shot EXCEPT !.log = Append(@, taken),
                                   !.i = IF taken.panicked THEN @ ELSE @ + 1]
           /\ pc' = IF taken.panicked THEN "panicked" ELSE "rotate"
    /\ UNCHANGED <<exit_code, camera_options, camera_nodes, bounds, width, height,
                   position, target, camera, screen_width, screen_height, state,
                   last_cursor, pressed_keys, delta_time, keep_running, warned,
                   drained, saw_quit, press_from, last_resize, headless, elapsed,
                   frame>>

\* lines 342, 348-349: the range is used up and multiscreenshot returns
MultiscreenshotReturn ==
    /\ pc = "rotate"
    /\ shot.i \notin Range(1, shot.count + 1)
    /\ pc' = "shots_done"
    /\ UNCHANGED <<exit_code, camera_options, camera_nodes, bounds, width, height,
                   position, target, camera, screen_width, screen_height, state,
                   last_cursor, pressed_keys, delta_time, keep_running, warned,
                   drained, saw_quit, press_from, last_resize, headless, elapsed,
                   frame, shot>>

----------------------------------------------------------------------------
(* Specifications *)

\* the state GltfViewer::new starts from: the window is open, the document is
\* loaded and OrbitControls::new has run
Start(docs, boxes, options, dims, headlesses) ==
    /\ pc = "new"
    /\ headless \in headlesses
    /\ elapsed = Duration(0, 0)
    /\ frame = NoFrame
    /\ shot = NoShot
    /\ exit_code = -1
    /\ camera_options \in options
    /\ camera_nodes \in docs
    /\ bounds \in boxes
    /\ width \in dims
    /\ height \in dims
    /\ position = Eye(<<0, 0, 2>>)
    /\ target = Pivot(<<0, 0, 0>>)
    /\ camera = [fovy |-> 0, aspect |-> <<1, 1>>]
    /\ screen_width = width
    /\ screen_height = height
    /\ state = "None"
    /\ last_cursor = NoCursor
    /\ pressed_keys = {}
    /\ delta_time = 0
    /\ keep_running = TRUE
    /\ warned = FALSE
    /\ drained = 0
    /\ saw_quit = FALSE
    /\ press_from = NoPress
    /\ last_resize = NoResize

\* every document, scene and camera option of the model
InitNew == Start(Documents, SceneBounds, Options, Dims, {FALSE})

NextNew == New

SpecNew == InitNew /\ [][NextNew]_vars

\* the window events that are no input of the user
WindowEvent ==
    \/ Closed
    \/ \E w \in Dims, h \in Dims : Resized(w, h)
    \/ Ignored

MouseButtonEvent ==
    \/ \E button \in MouseButtons : MousePressed(button)
    \/ \E button \in MouseButtons : MouseReleased(button)

PointerEvent ==
    \/ \E x \in Cursors, y \in Cursors : CursorMoved(x, y)
    \/ \E yoffset \in ScrollDeltas : MouseWheelPixel(yoffset)
    \/ \E lines \in ScrollDeltas : MouseWheelLine(lines)

KeyEvent == \E input \in KeyboardInputs : KeyboardInput(input)

Loop(seconds, nanoseconds) ==
    \/ \E secs \in seconds, nanos \in nanoseconds : FrameStart(secs, nanos)
    \/ PollEnd
    \/ LoopExit
    \/ FrameUpdate
    \/ Draw
    \/ SwapBuffers

\* a scene without cameras, viewed from its bounds in a window of 1 x 1
Init ==
    Start({<<>>}, {[min |-> <<0, 0, 0>>, max |-> <<0, 0, 10>>]},
          {[index |-> -1, position |-> None, target |-> None, fovy |-> 1]}, {1}, {FALSE})

\* a session driven with the mouse, every frame taking half a second
Next ==
    \/ New
    \/ Loop({0}, {NanosPerSec \div 2})
    \/ WindowEvent
    \/ MouseButtonEvent
    \/ PointerEvent

Spec == Init /\ [][Next]_vars

\* a session of mouse drags in a window of fixed size, without the wheel
NextDrag ==
    \/ New
    \/ Loop({0}, {NanosPerSec \div 2})
    \/ Closed
    \/ Ignored
    \/ MouseButtonEvent
    \/ \E x \in Cursors, y \in Cursors : CursorMoved(x, y)

SpecDrag == Init /\ [][NextDrag]_vars

\* a session driven with the keyboard and the mouse buttons
NextKeys ==
    \/ New
    \/ Loop({0}, SubSecs)
    \/ WindowEvent
    \/ MouseButtonEvent
    \/ KeyEvent

SpecKeys == Init /\ [][NextKeys]_vars

\* a session driven with the keyboard alone, its frames taking up to
\* MaxSecs and a half seconds
NextFrames ==
    \/ New
    \/ Loop(0..MaxSecs, SubSecs)
    \/ Closed
    \/ KeyEvent

SpecFrames == Init /\ [][NextFrames]_vars

\* the same scene in a viewer with or without a window
InitShots ==
    Start({<<>>}, {[min |-> <<0, 0, 0>>, max |-> <<0, 0, 10>>]},
          {[index |-> -1, position |-> None, target |-> None, fovy |-> 1]}, {1}, BOOLEAN)

\* the viewer is constructed and then either takes screenshots or enters the
\* render loop
NextShots ==
    \/ New
    \/ \E filename \in Paths, outcome \in Outcomes : Screenshot(filename, outcome)
    \/ \E filename \in Paths, count \in Counts : Multiscreenshot(filename, count)
    \/ RotateObject
    \/ \E outcome \in Outcomes : TakeScreenshot(outcome)
    \/ MultiscreenshotReturn
    \/ Loop({0}, {NanosPerSec \div 2})
    \/ Closed

SpecShots == InitShots /\ [][NextShots]_vars

----------------------------------------------------------------------------
(* Properties *)

Returned == pc \notin {"new", "exited"}
Index == camera_options.index
IndexInRange == Index >= 0 /\ Index < Len(camera_nodes)
NodePosition == Eye(camera_nodes[Index + 1].origin)
NodeTarget == Pivot(VecAdd(camera_nodes[Index + 1].origin, camera_nodes[Index + 1].forward))

\* C1: when process_events returns from a poll that handed over a Closed or
\* a Key(Escape, Pressed) event, keep_running is false, whatever else the
\* poll handed over before or after it.
C1_QuitEndsLoop == pc = "polled" /\ saw_quit => ~keep_running

\* C2: GltfViewer::new with a camera index that is >= 0 and >= the number of
\* camera nodes exits the process with code 2 and returns no viewer.
C2_IndexOutOfRangeExits ==
    pc # "new" /\ Index >= 0 /\ Index >= Len(camera_nodes)
        => pc = "exited" /\ exit_code = 2

\* C3: a viewer made with a camera index i, 0 <= i < number of camera nodes,
\* starts at the pose of camera node i; a viewer made with index -1 starts at
\* the pose fitted to the bounds (where no explicit option replaces it).
C3_IndexedCameraAdopted ==
    Returned =>
        /\ IndexInRange => position = NodePosition /\ target = NodeTarget
        /\ Index = -1 /\ camera_options.position = None
              => position = cam_pos_from_bounds(bounds)
        /\ Index = -1 /\ camera_options.target = None
              => target = target_from_bounds(bounds)

\* C4: explicit position/target options replace the pose only when no camera
\* index is given; with an index >= 0 and an explicit position or target the
\* warning is logged and the pose is that of the indexed camera node.
C4_ExplicitOnlyWithoutIndex ==
    Returned /\ Index >= 0
             /\ (camera_options.position # None \/ camera_options.target # None)
        => /\ warned
           /\ IndexInRange
           /\ position = NodePosition
           /\ target = NodeTarget

\* C5: after GltfViewer::new has returned, the controls' camera has the fovy
\* of the camera options, on every construction path.
C5_FovyFromOptions == Returned => camera.fovy = camera_options.fovy

\* C6 as stated: a button press changes nav_state only from None (left to
\* Rotating, right to Panning); in Rotating or Panning, and for any other
\* button, it leaves nav_state unchanged.
C6_PressOnlyFromNone ==
    [][\A button \in MouseButtons :
          MousePressed(button) =>
              state' = IF state = "None" /\ button = "Left" THEN "Rotating"
                       ELSE IF state = "None" /\ button = "Right" THEN "Panning"
                       ELSE state]_vars

\* C6 as amended: a left press sets nav_state to Rotating and a right press
\* sets it to Panning, in every nav state, also during the other drag; a
\* press of any other button leaves nav_state unchanged.
C6_PressSetsState ==
    [][\A button \in MouseButtons :
          MousePressed(button) =>
              state' = IF button = "Left" THEN "Rotating"
                       ELSE IF button = "Right" THEN "Panning"
                       ELSE state]_vars

\* a right press was handled during a rotation and made it a pan
C6_Witness == press_from = "Rotating" /\ state = "Panning"

\* C7: a button release changes state only when it matches the drag: left in
\* Rotating and right in Panning set nav_state to None and clear the last
\* cursor sample; every other release leaves both unchanged.
C7_ReleaseMatchesDrag ==
    [][\A button \in MouseButtons :
          MouseReleased(button) =>
              IF \/ button = "Left" /\ state = "Rotating"
                 \/ button = "Right" /\ state = "Panning"
              THEN state' = "None" /\ last_cursor' = NoCursor
              ELSE state' = state /\ last_cursor' = last_cursor]_vars

\* the eye was turned by a drag, and the drag was ended by its release
C7_Witness == position.az # 0 /\ state = "None" /\ last_cursor = NoCursor

\* C8: the first CursorMoved after a left or right press leaves position and
\* target unchanged, in every drag, also when the cursor moved before the press.
C8_FirstMoveSuppressed ==
    [][press_from # NoPress /\ (\E x \in Cursors, y \in Cursors : CursorMoved(x, y))
          => position' = position /\ target' = target]_vars

\* C9: after a Resized(w, h) event, w, h > 0, the camera's aspect is w/h and
\* the controls' screen size and the viewer's size are (w, h); so the aspect
\* is screen_width/screen_height, the ratio of the last resize.
C9_ResizeSetsAspect ==
    last_resize # NoResize =>
        /\ camera.aspect = Ratio(last_resize[1], last_resize[2])
        /\ <<screen_width, screen_height>> = last_resize
        /\ <<width, height>> = last_resize
        /\ camera.aspect = Ratio(screen_width, screen_height)

\* the window was resized from 1 x 1 to 1 x 2
C9_Witness == last_resize = <<1, 2>> /\ camera.aspect = <<1, 2>> /\ height = 2

\* C10: position and target of the controls are never the same point, from
\* the state GltfViewer::new returns on.
C10_EyeOffPivot == pc # "exited" => ~Coincide(position, target)


Multi == shot.i >= 1
Rotations == {k \in 1..Len(shot.log) : shot.log[k].op = "rotate_object"}
Screenshots == {k \in 1..Len(shot.log) : shot.log[k].op = "screenshot"}

\* C11: multiscreenshot(path, count) does, for i = 1..count in this order, one
\* rotate_object(2 PI / count) and then one screenshot named path with "_i"
\* inserted: the log alternates rotation and screenshot, beginning with a
\* rotation; the names are pairwise distinct; the call returns after exactly
\* count screenshots, none for count = 0.
C11_RotateThenShoot ==
    Multi =>
        /\ Len(shot.log) <= 2 * shot.count
        /\ \A k \in 1..Len(shot.log) :
              IF k % 2 = 1
              THEN shot.log[k] = [op |-> "rotate_object", angle |-> <<1, shot.count>>]
              ELSE /\ shot.log[k].op = "screenshot"
                   /\ shot.log[k].name = actual_name(shot.filename, k \div 2)
        /\ \A j, k \in Screenshots : j # k => shot.log[j].name # shot.log[k].name
        /\ pc = "shots_done" =>
              /\ Cardinality(Screenshots) = shot.count
              /\ Cardinality(Rotations) = shot.count
        /\ pc = "rotate" => Len(shot.log) = 2 * (shot.i - 1)
        /\ pc = "screenshot" => Len(shot.log) = 2 * shot.i - 1

C11_Witness ==
    /\ Multi
    /\ pc = "shots_done"
    /\ shot.count >= 2
    /\ Cardinality(Screenshots) = shot.count


\* C12: the name of the multi-shot file of index i is the path with "_i"
\* inserted immediately before its rightmost '.', appended when the path has
\* no '.': the path's characters in their order, longer by the length of
\* "_i", and the path again once "_i" is cut out ("a/b.png" gives
\* "a/b_3.png", "noext" gives "noext_3").
C12_IndexBeforeLastDot ==
    /\ actual_name(<<"a", "/", "b", ".", "p", "n", "g">>, 3)
          = <<"a", "/", "b", "_", "3", ".", "p", "n", "g">>
    /\ actual_name(<<"n", "o", "e", "x", "t">>, 3) = <<"n", "o", "e", "x", "t", "_", "3">>
    /\ Multi =>
          \A k \in Screenshots :
              LET name == shot.log[k].name
                  path == shot.filename
                  suffix == <<"_">> \o Decimal(k \div 2)
              IN  \E at \in 0..Len(path) :
                      /\ IF \E j \in 1..Len(path) : path[j] = "."
                         THEN /\ at < Len(path)
                              /\ path[at + 1] = "."
                              /\ \A j \in (at + 2)..Len(path) : path[j] # "."
                         ELSE at = Len(path)
                      /\ name = SubSeq(path, 1, at) \o suffix
                                    \o SubSeq(path, at + 1, Len(path))
                      /\ Len(name) = Len(path) + Len(suffix)
                      /\ SubSeq(name, 1, at)
                             \o SubSeq(name, at + Len(suffix) + 1, Len(name)) = path

C12_Witness ==
    /\ Multi
    /\ pc = "shots_done"
    /\ shot.filename = <<".", "a", ".">>
    /\ Len(shot.log) = 4
    /\ shot.log[4].name = <<".", "a", "_", "2", ".">>


\* C13: in every reachable state nav_state = None implies that last_cursor is
\* unset, also after a CursorMoved event that arrives while no button is held.
C13_IdleCursorUnset == state = "None" => last_cursor = NoCursor


CompleteFrame == <<"process_events", "frame_update", "draw", "swap_buffers">>
LastFrame == <<"process_events", "gl_check_error">>
IsPrefix(q, r) == Len(q) <= Len(r) /\ SubSeq(r, 1, Len(q)) = q
Controls == <<position, target, camera, state, last_cursor, pressed_keys>>

\* C14: a frame that completes has made, in this order and once each, the
\* event poll, frame_update(dt), the draw and the buffer swap; events are
\* applied only during the poll, hence before the frame's draw; the CamParams
\* the draw reads are the pose the poll left, moved by this frame's
\* frame_update under the keys the poll left held.
C14_FrameInOrder ==
    /\ [](/\ IsPrefix(frame.calls, CompleteFrame) \/ IsPrefix(frame.calls, LastFrame)
          /\ pc = "frame" /\ frame.calls # <<>> => frame.calls = CompleteFrame
          /\ pc = "swap" =>
                frame.cam_params =
                    camera_params(Walk(frame.polled[1], pressed_keys, delta_time),
                                  Walk(frame.polled[2], pressed_keys, delta_time),
                                  camera))
    /\ [][(pressed_keys' # pressed_keys \/ drained' > drained)
              => pc = "events" /\ frame.calls = <<>>]_vars

C14_Witness ==
    /\ pc = "swap"
    /\ frame.calls = <<"process_events", "frame_update", "draw">>
    /\ frame.polled[1] # frame.cam_params.position
    /\ drained = 0

\* C15: once a poll has returned keep_running = false there is no further
\* frame_update, draw or swap: the final GL error check is made once and
\* start_render_loop returns, after which nothing more happens; between a
\* draw and the next poll there is always that draw's buffer swap.
C15_QuitStopsFrames ==
    /\ [](pc = "returned" => frame.calls = LastFrame)
    /\ [][pc = "polled" /\ ~keep_running => pc' = "returned"]_vars
    /\ [][pc # "returned"]_vars
    /\ [][pc = "draw" => pc' = "swap"]_vars
    /\ [][pc = "swap" => pc' = "frame" /\ frame'.calls = CompleteFrame]_vars
    /\ [][pc # "events" /\ pc' = "events"
              => pc = "frame" /\ frame.calls \in {<<>>, CompleteFrame}]_vars

C15_Witness ==
    /\ pc = "returned"
    /\ frame.calls = LastFrame
    /\ target.walk # <<0, 0>>

\* C16: the time step of a frame is its elapsed nanoseconds modulo 10^9 (as
\* a part of a second, 0 <= dt < 1): the whole seconds are dropped, and a
\* frame of k seconds and n nanoseconds moves the camera for the held keys as
\* a frame of n nanoseconds does.
C16_SubsecondStep ==
    /\ [](/\ 0 <= delta_time /\ delta_time < NanosPerSec
          /\ delta_time = (((elapsed.secs * NanosPerSec) % NanosPerSec) + elapsed.nanos)
                              % NanosPerSec)
    /\ [][FrameUpdate => /\ position' = Walk(position, pressed_keys, elapsed.nanos)
                         /\ target' = Walk(target, pressed_keys, elapsed.nanos)]_vars

C16_Witness ==
    /\ pc = "draw"
    /\ elapsed.secs >= 1
    /\ elapsed.nanos > 0
    /\ target.walk # frame.polled[2].walk


Spin(k) == shot.log[k].cam_params.position.spin

\* C17: for count >= 1 the count rotations of 2 PI / count add up to a full
\* turn: the i-th screenshot is taken i parts of count of a turn away from
\* the starting azimuth, the screenshots are at pairwise distinct offsets
\* within a turn, and the last one, like the pose the call leaves, is at the
\* starting pose.
C17_FullTurn ==
    Multi /\ shot.count >= 1 =>
        /\ \A k \in Screenshots :
              LET i == (k \div 2) % shot.count
              IN  /\ shot.start.spin = <<0, 1>>
                  /\ Spin(k) = <<i \div Gcd(i, shot.count), shot.count \div Gcd(i, shot.count)>>
        /\ \A j, k \in Screenshots : j # k => Spin(j) # Spin(k)
        /\ pc = "shots_done" =>
              /\ position = shot.start
              /\ shot.log[Len(shot.log)].cam_params.position = shot.start

C17_Witness ==
    /\ Multi
    /\ pc = "shots_done"
    /\ shot.count >= 2
    /\ Spin(2) = <<1, shot.count>>
    /\ Spin(2 * shot.count) = <<0, 1>>
    /\ position = shot.start

Calls(k) == {shot.log[k].calls[j] : j \in 1..Len(shot.log[k].calls)}

\* C18: a screenshot draws exactly once, before the pixels are read back;
\* when encoding the PNG or writing it to the path fails, the failure is
\* logged, "Saved ..." is not, and execution goes on: inside multiscreenshot
\* the rotations and screenshots that remain are still made.
C18_WriteFailureLogged ==
    \A k \in Screenshots :
        /\ shot.log[k].calls[1] = "draw"
        /\ shot.log[k].calls[2] = "ReadPixels"
        /\ Cardinality({j \in 1..Len(shot.log[k].calls) : shot.log[k].calls[j] = "draw"}) = 1
        /\ shot.log[k].create = "Err" \/ shot.log[k].save = "Err" =>
              /\ "error" \in Calls(k)
              /\ "println_saved" \notin Calls(k)
              /\ ~shot.log[k].panicked
              /\ pc # "panicked"

\* C19: a headless viewer has no events loop and no window, so
\* start_render_loop fails in its first pass, at the unwrap of None, before
\* any event is processed and before any frame_update, draw or swap; what a
\* headless viewer can do is draw, screenshot and multiscreenshot.
C19_HeadlessLoopPanics ==
    /\ [](headless =>
            /\ pc \in {"new", "frame", "panicked", "rotate", "screenshot", "shots_done"}
            /\ frame.calls = <<>>
            /\ drained = 0
            /\ pressed_keys = {} /\ state = "None" /\ last_cursor = NoCursor)
    /\ [][headless /\ pc = "frame" /\ shot'.i = shot.i /\ shot'.log = shot.log
              => pc' = "panicked"]_vars

C19_Witness ==
    /\ headless
    /\ pc = "panicked"
    /\ shot.log = <<>>
    /\ delta_time > 0


Aliases == [FORWARD |-> {"W", "Up"}, BACKWARD |-> {"S", "Down"},
            LEFT |-> {"A", "Left"}, RIGHT |-> {"D", "Right"}]

\* C20: for each direction with two keys (W/Up, S/Down, A/Left, D/Right) a
\* key event of either key sets the direction in pressed_keys when it is a
\* press and clears it when it is a release, whatever the other key does, and
\* any other key event leaves it as it is: the direction is held exactly when
\* the most recent event of either key was a press. The directions Up and
\* Down are never set. A released Escape and a key event without a virtual
\* key code change nothing in the controls and keep the loop running.
C20_LastAliasEventWins ==
    /\ [](pressed_keys \subseteq DOMAIN Aliases /\ "UP" \notin pressed_keys
              /\ "DOWN" \notin pressed_keys)
    /\ [][\A input \in KeyboardInputs :
            KeyboardInput(input) =>
                /\ \A dir \in DOMAIN Aliases :
                      dir \in pressed_keys'
                          <=> IF input.virtual_keycode \in Aliases[dir]
                              THEN input.state = "Pressed"
                              ELSE dir \in pressed_keys
                /\ input.virtual_keycode = None
                       \/ (input.virtual_keycode = "Escape" /\ input.state = "Released")
                      => Controls' = Controls /\ keep_running']_vars
    /\ [][pressed_keys' # pressed_keys => \E input \in KeyboardInputs : KeyboardInput(input)]_vars

C20_Witness ==
    /\ pc = "events"
    /\ drained > 0
    /\ pressed_keys = {}
    /\ target.walk # <<0, 0>>

====
